---- MODULE Spec2Model ----
(***************************************************************************)
(* Model of the library catalog of src/models.py: the Book and Library     *)
(* classes, the JSON backing file, the callers of the front ends           *)
(* (src/main.py, src/api.py) and the Open Library lookup.                  *)
(*                                                                         *)
(* Python values are modelled as JSON values (JStr, JLit, JArr, JObj);     *)
(* text is a sequence of one-character strings; the backing file and the   *)
(* bodies of the remote responses are sequences of JSON tokens whose       *)
(* string tokens carry the escaped characters, so that json.dump and       *)
(* json.load are two different conversions.                                *)
(***************************************************************************)
EXTENDS Integers, Sequences, FiniteSets, TLC

(***************************************************************************)
(* Bounds of the model.                                                    *)
(***************************************************************************)
\* Book objects one Library instance may hold before it is reopened
MaxObjs == 3
\* the same, where the caller overwrites the fields of the Books it holds
MaxAliased == 2
\* the same, where the Books come from the remote service
MaxLookupObjs == 2
\* length of the list a caller appends to
MaxHeld == 2
\* Book objects each of two processes on one file creates
MaxSharedObjs == 2

(***************************************************************************)
(* Python / JSON values.                                                   *)
(***************************************************************************)
\* a str
JStr(s) == [k |-> "str", s |-> s, a |-> <<>>]
\* a number, null, true or false, kept by its literal text
JLit(s) == [k |-> "lit", s |-> s, a |-> <<>>]
\* a list
JArr(items) == [k |-> "arr", s |-> <<>>, a |-> items]
\* a dict: an ordered sequence of [key, val] pairs with distinct keys
JObj(pairs) == [k |-> "obj", s |-> <<>>, a |-> pairs]
\* None
None == JLit(<<"n", "u", "l", "l">>)

\* dict: key in d
HasKey(d, key) == \E i \in 1..Len(d.a) : d.a[i].key = key
\* dict: d[key], for a key that is present
GetKey(d, key) == d.a[CHOOSE i \in 1..Len(d.a) : d.a[i].key = key].val
\* dict: d[key] = val, keeping the position of a key that is present
SetKey(pairs, key, val) ==
    IF \E i \in 1..Len(pairs) : pairs[i].key = key
    THEN [i \in 1..Len(pairs) |->
            IF pairs[i].key = key THEN [key |-> key, val |-> val] ELSE pairs[i]]
    ELSE Append(pairs, [key |-> key, val |-> val])

K_title == <<"t", "i", "t", "l", "e">>
K_author == <<"a", "u", "t", "h", "o", "r">>
K_isbn == <<"i", "s", "b", "n">>

(***************************************************************************)
(* JSON text: tokens, json.dump and json.load.                             *)
(***************************************************************************)
Tok(t, s) == [t |-> t, s |-> s]
P(t) == Tok(t, <<>>)

\* a dump that writes the characters as they are
Escape_raw(s) == s

RECURSIVE Escape(_)
\* the characters of a string literal: json.dump(ensure_ascii=False)
\* escapes the quote and the backslash
Escape(s) ==
    IF s = <<>> THEN <<>>
    ELSE (IF Head(s) \in {"\"", "\\"} THEN <<"\\", Head(s)>> ELSE <<Head(s)>>)
         \o Escape(Tail(s))

RECURSIVE ValidLiteral(_)
\* a string literal json.load accepts: no bare quote, every backslash
\* followed by a quote or a backslash
ValidLiteral(s) ==
    IF s = <<>> THEN TRUE
    ELSE IF Head(s) = "\\"
         THEN Len(s) >= 2 /\ s[2] \in {"\"", "\\"} /\ ValidLiteral(Tail(Tail(s)))
         ELSE Head(s) # "\"" /\ ValidLiteral(Tail(s))

RECURSIVE Unescape(_)
\* the str a valid string literal stands for
Unescape(s) ==
    IF s = <<>> THEN <<>>
    ELSE IF Head(s) = "\\"
         THEN <<s[2]>> \o Unescape(Tail(Tail(s)))
         ELSE <<Head(s)>> \o Unescape(Tail(s))

RECURSIVE DumpValue(_)
RECURSIVE DumpItems(_, _)
RECURSIVE DumpPairs(_, _)
\* json.dump of one value, as tokens
DumpValue(v) ==
    CASE v.k = "str" -> <<Tok("str", Escape(v.s))>>
      [] v.k = "lit" -> <<Tok("lit", v.s)>>
      [] v.k = "arr" -> <<P("[")>> \o DumpItems(v.a, 1) \o <<P("]")>>
      [] v.k = "obj" -> <<P("{")>> \o DumpPairs(v.a, 1) \o <<P("}")>>
DumpItems(items, i) ==
    IF i > Len(items) THEN <<>>
    ELSE (IF i > 1 THEN <<P(",")>> ELSE <<>>)
         \o DumpValue(items[i]) \o DumpItems(items, i + 1)
DumpPairs(pairs, i) ==
    IF i > Len(pairs) THEN <<>>
    ELSE (IF i > 1 THEN <<P(",")>> ELSE <<>>)
         \o <<Tok("str", Escape(pairs[i].key)), P(":")>>
         \o DumpValue(pairs[i].val) \o DumpPairs(pairs, i + 1)
json_dump(v) == DumpValue(v)

ParseFail == [ok |-> FALSE, val |-> None, next |-> 0]
ParseOk(v, n) == [ok |-> TRUE, val |-> v, next |-> n]

RECURSIVE ParseValue(_, _)
RECURSIVE ParseElems(_, _, _)
RECURSIVE ParseMembers(_, _, _)
\* the value that starts at token i, and the position after it
ParseValue(toks, i) ==
    IF i > Len(toks) THEN ParseFail
    ELSE CASE toks[i].t = "str" ->
                IF ValidLiteral(toks[i].s)
                THEN ParseOk(JStr(Unescape(toks[i].s)), i + 1)
                ELSE ParseFail
           [] toks[i].t = "lit" -> ParseOk(JLit(toks[i].s), i + 1)
           [] toks[i].t = "[" ->
                IF i + 1 <= Len(toks) /\ toks[i + 1].t = "]"
                THEN ParseOk(JArr(<<>>), i + 2)
                ELSE ParseElems(toks, i + 1, <<>>)
           [] toks[i].t = "{" ->
                IF i + 1 <= Len(toks) /\ toks[i + 1].t = "}"
                THEN ParseOk(JObj(<<>>), i + 2)
                ELSE ParseMembers(toks, i + 1, <<>>)
           [] OTHER -> ParseFail
ParseElems(toks, i, acc) ==
    LET r == ParseValue(toks, i) IN
    IF ~r.ok \/ r.next > Len(toks) THEN ParseFail
    ELSE IF toks[r.next].t = ","
         THEN ParseElems(toks, r.next + 1, Append(acc, r.val))
         ELSE IF toks[r.next].t = "]"
              THEN ParseOk(JArr(Append(acc, r.val)), r.next + 1)
              ELSE ParseFail
ParseMembers(toks, i, acc) ==
    IF i + 1 > Len(toks) \/ toks[i].t # "str" \/ toks[i + 1].t # ":"
    THEN ParseFail
    ELSE IF ~ValidLiteral(toks[i].s) THEN ParseFail
    ELSE LET r == ParseValue(toks, i + 2)
             key == Unescape(toks[i].s) IN
         IF ~r.ok \/ r.next > Len(toks) THEN ParseFail
         ELSE IF toks[r.next].t = ","
              THEN ParseMembers(toks, r.next + 1, SetKey(acc, key, r.val))
              ELSE IF toks[r.next].t = "}"
                   THEN ParseOk(JObj(SetKey(acc, key, r.val)), r.next + 1)
                   ELSE ParseFail

\* json.load: the value of the whole text, or JSONDecodeError
json_load(text) ==
    LET r == ParseValue(text, 1) IN
    IF r.ok /\ r.next = Len(text) + 1
    THEN [ok |-> TRUE, val |-> r.val]
    ELSE [ok |-> FALSE, val |-> None]

(***************************************************************************)
(* Texts of the model.                                                     *)
(***************************************************************************)
UnknownTitle == <<"U", "n", "k", "n", "o", "w", "n", " ", "T", "i", "t", "l", "e">>
UnknownAuthor == <<"U", "n", "k", "n", "o", "w", "n", " ", "A", "u", "t", "h", "o", "r">>
\* ISBNs the callers type in
Isbns == {<<"1">>, <<"2">>}
\* titles the callers type in; one needs escaping in the file
Titles == {<<"\"", "\\">>}
\* authors the callers type in
Authors == {<<"b">>}

(***************************************************************************)
(* class Book                                                              *)
(***************************************************************************)
Book(title, author, isbn) == [title |-> title, author |-> author, isbn |-> isbn]

to_dict(book) ==
    JObj(<<[key |-> K_title, val |-> book.title],
           [key |-> K_author, val |-> book.author],
           [key |-> K_isbn, val |-> book.isbn]>>)

(***************************************************************************)
(* class Library.  self.books is a list of references to Book objects:     *)
(* bs is the list, hp the heap (hp[r] is the object behind reference r),   *)
(* fl the backing file, ioOk whether the file can be opened for writing.   *)
(***************************************************************************)
\* the file: exists, and its text as JSON tokens
File(text) == [exists |-> TRUE, text |-> text]
NoFile == [exists |-> FALSE, text |-> <<>>]

\* the reference of the first book with this isbn, 0 for None
find_book(bs, hp, isbn) ==
    IF \E i \in 1..Len(bs) : hp[bs[i]].isbn = isbn
    THEN bs[CHOOSE i \in 1..Len(bs) :
               /\ hp[bs[i]].isbn = isbn
               /\ \A j \in 1..(i - 1) : hp[bs[j]].isbn # isbn]
    ELSE 0

\* save_books with open(self.filename, 'a'): the text is added to the file
save_books_append(bs, hp, fl, ioOk) ==
    IF ioOk
    THEN [file |-> File(fl.text
                        \o json_dump(JArr([i \in 1..Len(bs) |-> to_dict(hp[bs[i]])]))),
          exc |-> "none"]
    ELSE [file |-> fl, exc |-> "IOError"]

\* open(self.filename, 'w') raises when the file cannot be opened for
\* writing (invalid path, permission denied) and the file stays as it was
save_books(bs, hp, fl, ioOk) ==
    IF ioOk
    THEN [file |-> File(json_dump(JArr([i \in 1..Len(bs) |-> to_dict(hp[bs[i]])]))),
          exc |-> "none"]
    ELSE [file |-> fl, exc |-> "IOError"]

\* add_book without the find_book check
add_book_unchecked(bs, hp, fl, book, ioOk) ==
    LET hp2 == Append(hp, book)
        bs2 == Append(bs, Len(hp) + 1)
        sv == save_books(bs2, hp2, fl, ioOk) IN
    [books |-> bs2, heap |-> hp2, file |-> sv.file, exc |-> sv.exc,
     msg |-> IF sv.exc = "none" THEN "" ELSE "Failed to save books"]

\* add_book with insert(0, book) for append(book)
add_book_atFront(bs, hp, fl, book, ioOk) ==
    IF \E i \in 1..Len(bs) : hp[bs[i]].isbn = book.isbn
    THEN [books |-> bs, heap |-> hp, file |-> fl, exc |-> "ValueError",
          msg |-> "already exists"]
    ELSE LET hp2 == Append(hp, book)
             bs2 == <<Len(hp) + 1>> \o bs
             sv == save_books(bs2, hp2, fl, ioOk) IN
         [books |-> bs2, heap |-> hp2, file |-> sv.file, exc |-> sv.exc,
          msg |-> IF sv.exc = "none" THEN "" ELSE "Failed to save books"]

\* book is the Book the caller built; it gets its reference when it is stored
add_book(bs, hp, fl, book, ioOk) ==
    IF find_book(bs, hp, book.isbn) # 0
    THEN [books |-> bs, heap |-> hp, file |-> fl, exc |-> "ValueError",
          msg |-> "already exists"]
    ELSE LET hp2 == Append(hp, book)
             bs2 == Append(bs, Len(hp) + 1)
             sv == save_books(bs2, hp2, fl, ioOk) IN
         [books |-> bs2, heap |-> hp2, file |-> sv.file, exc |-> sv.exc,
          msg |-> IF sv.exc = "none" THEN "" ELSE "Failed to save books"]

RemoveAt(s, i) == SubSeq(s, 1, i - 1) \o SubSeq(s, i + 1, Len(s))

\* remove_book without the call of save_books
remove_book_unsaved(bs, hp, fl, isbn, ioOk) ==
    IF \E i \in 1..Len(bs) : hp[bs[i]].isbn = isbn
    THEN LET i == CHOOSE i \in 1..Len(bs) :
                     /\ hp[bs[i]].isbn = isbn
                     /\ \A j \in 1..(i - 1) : hp[bs[j]].isbn # isbn IN
         [books |-> RemoveAt(bs, i), file |-> fl, ret |-> TRUE, exc |-> "none"]
    ELSE [books |-> bs, file |-> fl, ret |-> FALSE, exc |-> "none"]

remove_book(bs, hp, fl, isbn, ioOk) ==
    IF \E i \in 1..Len(bs) : hp[bs[i]].isbn = isbn
    THEN LET i == CHOOSE i \in 1..Len(bs) :
                     /\ hp[bs[i]].isbn = isbn
                     /\ \A j \in 1..(i - 1) : hp[bs[j]].isbn # isbn
             bs2 == RemoveAt(bs, i)
             sv == save_books(bs2, hp, fl, ioOk) IN
         [books |-> bs2, file |-> sv.file, ret |-> sv.exc = "none", exc |-> sv.exc]
    ELSE [books |-> bs, file |-> fl, ret |-> FALSE, exc |-> "none"]

\* list_books returning self.books itself
list_books_alias(ls) == [lists |-> ls, id |-> 1]

\* ls[1] is the list object self.books, ls[2] the list object the caller
\* holds; the copy is a new list of the same references
list_books(ls) == [lists |-> <<ls[1], ls[1]>>, id |-> 2]

\* what a for loop over a value yields; a number, null or a bool is not
\* iterable
Iterable(v) == v.k # "lit"
Iter(v) ==
    CASE v.k = "arr" -> v.a
      [] v.k = "obj" -> [i \in 1..Len(v.a) |-> JStr(v.a[i].key)]
      [] v.k = "str" -> [i \in 1..Len(v.s) |-> JStr(<<v.s[i]>>)]
      [] OTHER -> <<>>

\* Book(book_data['title'], book_data['author'], book_data['isbn'])
BookOfData(d) ==
    IF d.k # "obj" THEN [exc |-> "TypeError", book |-> Book(None, None, None)]
    ELSE IF ~(HasKey(d, K_title) /\ HasKey(d, K_author) /\ HasKey(d, K_isbn))
         THEN [exc |-> "KeyError", book |-> Book(None, None, None)]
         ELSE [exc |-> "none",
               book |-> Book(GetKey(d, K_title), GetKey(d, K_author), GetKey(d, K_isbn))]

\* the objects and the list a new Library starts with, or the exception
\* that leaves its constructor
load_books(fl) ==
    LET empty == [heap |-> <<>>, books |-> <<>>, exc |-> "none"]
        parsed == json_load(fl.text) IN
    IF ~fl.exists THEN empty
    ELSE IF ~parsed.ok THEN empty
    ELSE IF ~Iterable(parsed.val)
         THEN [heap |-> <<>>, books |-> <<>>, exc |-> "TypeError"]
         ELSE LET items == Iter(parsed.val)
                  made == [i \in 1..Len(items) |-> BookOfData(items[i])]
                  bad == {i \in 1..Len(items) : made[i].exc # "none"} IN
              IF bad = {}
              THEN [heap |-> [i \in 1..Len(items) |-> made[i].book],
                    books |-> [i \in 1..Len(items) |-> i],
                    exc |-> "none"]
              ELSE LET first == CHOOSE i \in bad : \A j \in bad : i <= j IN
                   IF made[first].exc = "KeyError" THEN empty
                   ELSE [heap |-> <<>>, books |-> <<>>, exc |-> "TypeError"]

(***************************************************************************)
(* The Open Library service, as add_book_by_isbn sees it.  A response is   *)
(* a timeout, a connection failure, or a status with a body.               *)
(***************************************************************************)
K_authors == <<"a", "u", "t", "h", "o", "r", "s">>
K_key == <<"k", "e", "y">>
K_name == <<"n", "a", "m", "e">>

Timeout == [kind |-> "timeout", status |-> 0, body |-> <<>>]
ConnectFail == [kind |-> "connect", status |-> 0, body |-> <<>>]
Http(status, body) == [kind |-> "http", status |-> status, body |-> body]

\* client.get(f"https://openlibrary.org/isbn/{isbn}.json")
BookRequest(isbn) == [to |-> "isbn", arg |-> JStr(isbn)]
\* client.get(f"https://openlibrary.org{author_ref['key']}.json")
AuthorRequest(key) == [to |-> "author", arg |-> key]
\* one client.get: the request and the response it got
Sent(req, resp) == [to |-> req.to, arg |-> req.arg, resp |-> resp]

\* ', '.join(authors)
RECURSIVE Join(_)
Join(names) ==
    IF Len(names) = 1 THEN names[1].s
    ELSE names[1].s \o <<",", " ">> \o Join(Tail(names))

\* author_data.get('name', '')
author_name_emptyDefault(author_data) ==
    IF HasKey(author_data, K_name) THEN GetKey(author_data, K_name) ELSE JStr(<<>>)

\* author_data.get('name', 'Unknown Author')
author_name(author_data) ==
    IF HasKey(author_data, K_name) THEN GetKey(author_data, K_name)
    ELSE JStr(UnknownAuthor)

\* the for loop over book_data['authors'], from reference i on: n author
\* requests were issued so far, ars[n + 1] answers the next one
RECURSIVE AuthorLoop(_, _, _, _, _)
AuthorLoop(refs, i, authors, reqs, ars) ==
    IF i > Len(refs)
    THEN [exc |-> "none", msg |-> "", authors |-> authors, requests |-> reqs]
    ELSE IF ~(refs[i].k = "obj" /\ HasKey(refs[i], K_key))
    THEN AuthorLoop(refs, i + 1, authors, reqs, ars)
    ELSE LET resp == ars[Len(reqs)]
             reqs2 == Append(reqs, Sent(AuthorRequest(GetKey(refs[i], K_key)), resp))
             parsed == json_load(resp.body) IN
         CASE resp.kind = "timeout" ->
                [exc |-> "ConnectionError", msg |-> "Request timed out",
                 authors |-> authors, requests |-> reqs2]
           [] resp.kind = "connect" ->
                [exc |-> "ConnectionError", msg |-> "Failed to connect",
                 authors |-> authors, requests |-> reqs2]
           [] resp.kind = "http" /\ resp.status # 200 ->
                AuthorLoop(refs, i + 1, authors, reqs2, ars)
           [] OTHER ->
                IF ~parsed.ok
                THEN [exc |-> "ValueError", msg |-> "Invalid response format",
                      authors |-> authors, requests |-> reqs2]
                ELSE IF parsed.val.k # "obj"
                THEN [exc |-> "ConnectionError", msg |-> "Unexpected error",
                      authors |-> authors, requests |-> reqs2]
                ELSE AuthorLoop(refs, i + 1,
                         Append(authors, author_name(parsed.val)),
                         reqs2, ars)

\* the try block of add_book_by_isbn and its except clauses: remote.book
\* answers the book request, remote.authors[n] the n-th author request
add_book_by_isbn_try(bs, hp, fl, isbn, remote, ioOk) ==
    LET fail(exc, msg, code, reqs) ==
            [books |-> bs, heap |-> hp, file |-> fl, exc |-> exc, msg |-> msg,
             arg |-> <<>>, code |-> code, ref |-> 0, requests |-> reqs,
             saveFailed |-> FALSE]
        resp == remote.book
        reqs1 == <<Sent(BookRequest(isbn), resp)>>
        parsed == json_load(resp.body)
        book_data == parsed.val IN
    IF resp.kind = "timeout"
    THEN fail("ConnectionError", "Request timed out", 0, reqs1)
    ELSE IF resp.kind = "connect"
    THEN fail("ConnectionError", "Failed to connect", 0, reqs1)
    ELSE IF resp.status = 404
    THEN [fail("ValueError", "not found", 0, reqs1) EXCEPT !.arg = isbn]
    ELSE IF resp.status \notin 200..299
    THEN fail("ConnectionError", "HTTP error occurred", resp.status, reqs1)
    ELSE IF ~parsed.ok
    THEN fail("ValueError", "Invalid response format", 0, reqs1)
    ELSE IF book_data.k # "obj"
    THEN fail("ConnectionError", "Unexpected error", 0, reqs1)
    ELSE LET title == IF HasKey(book_data, K_title)
                      THEN GetKey(book_data, K_title)
                      ELSE JStr(UnknownTitle)
             hasAuthors == HasKey(book_data, K_authors)
             refsVal == IF hasAuthors THEN GetKey(book_data, K_authors) ELSE JArr(<<>>)
             loop == AuthorLoop(Iter(refsVal), 1, <<>>, reqs1, remote.authors)
             authors == IF loop.authors = <<>> THEN <<JStr(UnknownAuthor)>>
                        ELSE loop.authors
             book == Book(title, JStr(Join(authors)), JStr(isbn))
             added == add_book(bs, hp, fl, book, ioOk) IN
         IF ~Iterable(refsVal)
         THEN fail("ConnectionError", "Unexpected error", 0, reqs1)
         ELSE IF loop.exc # "none"
         THEN fail(loop.exc, loop.msg, 0, loop.requests)
         ELSE IF \E j \in 1..Len(authors) : authors[j].k # "str"
         THEN fail("ConnectionError", "Unexpected error", 0, loop.requests)
         ELSE [books |-> added.books, heap |-> added.heap, file |-> added.file,
               exc |-> CASE added.exc = "none" -> "none"
                         [] added.exc = "ValueError" -> "ValueError"
                         [] OTHER -> "ConnectionError",
               msg |-> CASE added.exc = "none" -> ""
                         [] added.exc = "ValueError" -> added.msg
                         [] OTHER -> "Unexpected error",
               arg |-> IF added.exc = "ValueError" THEN isbn ELSE <<>>,
               code |-> 0,
               ref |-> IF added.exc = "none" THEN Len(added.heap) ELSE 0,
               requests |-> loop.requests,
               saveFailed |-> added.exc = "IOError"]

\* add_book_by_isbn without the check for an existing book
add_book_by_isbn_unchecked(bs, hp, fl, isbn, remote, ioOk) ==
    add_book_by_isbn_try(bs, hp, fl, isbn, remote, ioOk)

\* add_book_by_isbn without the special case for status 404
add_book_by_isbn_no404(bs, hp, fl, isbn, remote, ioOk) ==
    LET r == add_book_by_isbn_try(bs, hp, fl, isbn, remote, ioOk) IN
    IF find_book(bs, hp, JStr(isbn)) # 0
    THEN [books |-> bs, heap |-> hp, file |-> fl, exc |-> "ValueError",
          msg |-> "already exists", arg |-> isbn, code |-> 0, ref |-> 0,
          requests |-> <<>>, saveFailed |-> FALSE]
    ELSE IF r.msg = "not found"
    THEN [r EXCEPT !.exc = "ConnectionError", !.msg = "HTTP error occurred",
                   !.arg = <<>>, !.code = 404]
    ELSE r

\* add_book_by_isbn reporting every unsuccessful status as "not found"
add_book_by_isbn_allNotFound(bs, hp, fl, isbn, remote, ioOk) ==
    LET r == add_book_by_isbn_try(bs, hp, fl, isbn, remote, ioOk) IN
    IF find_book(bs, hp, JStr(isbn)) # 0
    THEN [books |-> bs, heap |-> hp, file |-> fl, exc |-> "ValueError",
          msg |-> "already exists", arg |-> isbn, code |-> 0, ref |-> 0,
          requests |-> <<>>, saveFailed |-> FALSE]
    ELSE IF r.msg = "HTTP error occurred"
    THEN [r EXCEPT !.exc = "ValueError", !.msg = "not found", !.arg = isbn,
                   !.code = 0]
    ELSE r

\* add_book_by_isbn sending the book request again after a timeout
add_book_by_isbn_retry(bs, hp, fl, isbn, remote, ioOk) ==
    LET r == add_book_by_isbn_try(bs, hp, fl, isbn, remote, ioOk) IN
    IF find_book(bs, hp, JStr(isbn)) # 0
    THEN [books |-> bs, heap |-> hp, file |-> fl, exc |-> "ValueError",
          msg |-> "already exists", arg |-> isbn, code |-> 0, ref |-> 0,
          requests |-> <<>>, saveFailed |-> FALSE]
    ELSE IF r.msg = "Request timed out" /\ Len(r.requests) = 1
    THEN [r EXCEPT !.requests = r.requests \o r.requests]
    ELSE r

add_book_by_isbn(bs, hp, fl, isbn, remote, ioOk) ==
    IF find_book(bs, hp, JStr(isbn)) # 0
    THEN [books |-> bs, heap |-> hp, file |-> fl, exc |-> "ValueError",
          msg |-> "already exists", arg |-> isbn, code |-> 0, ref |-> 0,
          requests |-> <<>>, saveFailed |-> FALSE]
    ELSE add_book_by_isbn_try(bs, hp, fl, isbn, remote, ioOk)

(***************************************************************************)
(* Inputs: the backing files a Library is opened on, and the answers of    *)
(* the remote service.                                                     *)
(***************************************************************************)
S(t) == Tok("str", t)
Member(key, val) == <<S(key), P(":")>> \o val
\* title and author as they stand between the quotes of the file
RecordText(title, author, isbn) ==
    <<P("{")>> \o Member(K_title, <<S(title)>>) \o <<P(",")>>
    \o Member(K_author, <<S(author)>>) \o <<P(",")>>
    \o Member(K_isbn, isbn) \o <<P("}")>>

\* "invalid json content"
F_garbage == File(<<Tok("bad", <<>>)>>)
\* 5
F_number == File(<<Tok("lit", <<"5">>)>>)
\* {"title": "a"}
F_object == File(<<P("{")>> \o Member(K_title, <<S(<<"a">>)>>) \o <<P("}")>>)
\* [5]
F_arrayOfNumbers == File(<<P("["), Tok("lit", <<"5">>), P("]")>>)
\* [{"title": "a", "author": "b"}]
F_missingIsbn ==
    File(<<P("["), P("{")>> \o Member(K_title, <<S(<<"a">>)>>) \o <<P(",")>>
         \o Member(K_author, <<S(<<"b">>)>>) \o <<P("}"), P("]")>>)
\* [{"title": "\\\"\\\\", "author": "b", "isbn": 5}]
F_numberIsbn ==
    File(<<P("[")>> \o RecordText(<<"\\", "\"", "\\", "\\">>, <<"b">>, <<Tok("lit", <<"5">>)>>) \o <<P("]")>>)
\* [{"title": "\\\"\\\\", "author": "b", "isbn": "1"}]
F_one ==
    File(<<P("[")>> \o RecordText(<<"\\", "\"", "\\", "\\">>, <<"b">>, <<S(<<"1">>)>>) \o <<P("]")>>)
\* two records with the isbn "1"
F_sameIsbn ==
    File(<<P("[")>> \o RecordText(<<"\\", "\"", "\\", "\\">>, <<"b">>, <<S(<<"1">>)>>) \o <<P(",")>>
         \o RecordText(<<"\\", "\"", "\\", "\\">>, <<"b">>, <<S(<<"1">>)>>) \o <<P("]")>>)

InitFiles == {NoFile, File(<<>>), F_garbage, F_number, F_object, F_arrayOfNumbers,
              F_missingIsbn, F_numberIsbn, F_one, F_sameIsbn}

KeyRef(key) == <<P("{")>> \o Member(K_key, <<S(key)>>) \o <<P("}")>>
\* {"title": "a"}
B_title == <<P("{")>> \o Member(K_title, <<S(<<"a">>)>>) \o <<P("}")>>
\* {}
B_empty == <<P("{"), P("}")>>
\* {"title": "a", "authors": [{"key": "/k"}]}
B_oneAuthor ==
    <<P("{")>> \o Member(K_title, <<S(<<"a">>)>>) \o <<P(",")>>
    \o Member(K_authors, <<P("[")>> \o KeyRef(<<"/", "k">>) \o <<P("]")>>) \o <<P("}")>>
\* {"authors": [{"key": "/k"}, {}, {"key": "/m"}]}
B_twoAuthors ==
    <<P("{")>>
    \o Member(K_authors, <<P("[")>> \o KeyRef(<<"/", "k">>) \o <<P(","), P("{"), P("}"), P(",")>>
                         \o KeyRef(<<"/", "m">>) \o <<P("]")>>) \o <<P("}")>>
\* not JSON
B_invalid == <<Tok("bad", <<>>)>>
\* 5
B_number == <<Tok("lit", <<"5">>)>>
\* {"name": "b"}
A_name == <<P("{")>> \o Member(K_name, <<S(<<"b">>)>>) \o <<P("}")>>

BookResponses == {Timeout, ConnectFail, Http(404, <<>>), Http(500, <<>>),
                  Http(200, B_title), Http(200, B_empty), Http(200, B_oneAuthor),
                  Http(200, B_twoAuthors), Http(200, B_invalid), Http(200, B_number)}
AuthorResponses == {Timeout, ConnectFail, Http(404, <<>>), Http(200, A_name),
                    Http(200, B_empty), Http(200, B_invalid), Http(200, B_number)}

\* the author requests a book response can lead to
RefCount(resp) ==
    LET parsed == json_load(resp.body) IN
    IF resp.kind = "http" /\ resp.status = 200 /\ parsed.ok /\ parsed.val.k = "obj"
       /\ HasKey(parsed.val, K_authors)
    THEN LET refs == Iter(GetKey(parsed.val, K_authors)) IN
         Cardinality({i \in 1..Len(refs) : refs[i].k = "obj" /\ HasKey(refs[i], K_key)})
    ELSE 0
Remotes ==
    UNION {{[book |-> b, authors |-> ars] : ars \in [1..RefCount(b) -> AuthorResponses]}
           : b \in BookResponses}

\* the text a caller overwrites a field of a Book with
NewText == <<"x">>

(***************************************************************************)
(* The state: one Library instance, its file, and what its caller holds.   *)
(***************************************************************************)
VARIABLES
    heap,    \* the Book objects, by reference
    lists,   \* lists[1]: self.books, lists[2]: the list list_books handed out
    snap,    \* the list object the caller holds: 0 none
    file,    \* the backing file
    alive,   \* the constructor returned an instance
    result,  \* the last call and how it ended
    peer     \* a second Library instance on the same file

vars == <<heap, lists, snap, file, alive, result, peer>>

books == lists[1]

Res(op, exc, msg, isbn, ref, ret, code, requests) ==
    [op |-> op, exc |-> exc, msg |-> msg, arg |-> <<>>, isbn |-> isbn, ref |-> ref,
     ret |-> ret, code |-> code, requests |-> requests, saveFailed |-> FALSE]

\* the second instance before it is constructed
NoPeer ==
    [alive |-> FALSE, heap |-> <<>>, books |-> <<>>,
     result |-> Res("", "", "", <<>>, 0, "", 0, <<>>)]

\* POST /books: the status the API answers with for the way
\* library.add_book_by_isbn ended
ApiStatus(exc) ==
    CASE exc = "none" -> 200
      [] exc = "ValueError" -> 400
      [] exc = "ConnectionError" -> 503
      [] OTHER -> 500

\* Library(filename): load_books, and the caller holds nothing yet
Library(fl) ==
    LET ld == load_books(fl) IN
    [heap |-> ld.heap, lists |-> <<ld.books, <<>>>>, alive |-> ld.exc = "none",
     exc |-> ld.exc]

Init ==
    \E f \in InitFiles :
        LET lib == Library(f) IN
        /\ file = f
        /\ heap = lib.heap
        /\ lists = lib.lists
        /\ snap = 0
        /\ alive = lib.alive
        /\ result = Res("load_books", lib.exc, "", <<>>, 0, "", 0, <<>>)
        /\ peer = NoPeer

\* the process is started again on the same file
Reopen ==
    \E lib \in {Library(file)} :
    /\ heap' = lib.heap
    /\ lists' = lib.lists
    /\ snap' = 0
    /\ alive' = lib.alive
    /\ result' = Res("load_books", lib.exc, "", <<>>, 0, "", 0, <<>>)
    /\ UNCHANGED <<file, peer>>

\* the list a front-end function got from list_books is a local of that
\* function: the next call into the library starts without it
Forget(ls) == [ls EXCEPT ![2] = <<>>]

\* main.py, manual entry: Book(title, author, isbn), library.add_book(book)
AddBook(title, author, isbn, ioOk) ==
    \E r \in {add_book(books, heap, file, Book(JStr(title), JStr(author), JStr(isbn)), ioOk)} :
    /\ alive
    /\ heap' = r.heap
    /\ lists' = Forget([lists EXCEPT ![1] = r.books])
    /\ snap' = 0
    /\ file' = r.file
    /\ result' = [Res("add_book", r.exc, r.msg, isbn,
                      IF r.exc = "ValueError" THEN 0 ELSE Len(r.heap), "", 0, <<>>)
                      EXCEPT !.arg = IF r.exc = "ValueError" THEN isbn ELSE <<>>,
                             !.saveFailed = r.exc = "IOError"]
    /\ UNCHANGED <<alive, peer>>

RemoveBook(isbn, ioOk) ==
    \E r \in {remove_book(books, heap, file, JStr(isbn), ioOk)} :
    /\ alive
    /\ lists' = Forget([lists EXCEPT ![1] = r.books])
    /\ snap' = 0
    /\ file' = r.file
    /\ result' = [Res("remove_book", r.exc, "", isbn, 0,
                      IF r.exc # "none" THEN "" ELSE IF r.ret THEN "True" ELSE "False",
                      0, <<>>)
                      EXCEPT !.saveFailed = r.exc = "IOError"]
    /\ UNCHANGED <<heap, alive, peer>>

FindBook(isbn) ==
    LET ref == find_book(books, heap, JStr(isbn)) IN
    /\ alive
    /\ lists' = Forget(lists)
    /\ snap' = 0
    /\ result' = Res("find_book", "none", "", isbn, ref,
                     IF ref = 0 THEN "None" ELSE "Book", 0, <<>>)
    /\ UNCHANGED <<heap, file, alive, peer>>

ListBooks ==
    \E r \in {list_books(lists)} :
    /\ alive
    /\ lists' = r.lists
    /\ snap' = r.id
    /\ result' = Res("list_books", "none", "", <<>>, 0, "list", 0, <<>>)
    /\ UNCHANGED <<heap, file, alive, peer>>

AddBookByIsbn(isbn, remote, ioOk) ==
    \E r \in {add_book_by_isbn(books, heap, file, isbn, remote, ioOk)} :
    /\ alive
    /\ heap' = r.heap
    /\ lists' = Forget([lists EXCEPT ![1] = r.books])
    /\ snap' = 0
    /\ file' = r.file
    /\ result' = [Res("add_book_by_isbn", r.exc, r.msg, isbn, r.ref,
                      IF r.exc = "none" THEN "Book" ELSE "", r.code, r.requests)
                      EXCEPT !.arg = r.arg, !.saveFailed = r.saveFailed]
    /\ UNCHANGED <<alive, peer>>

(***************************************************************************)
(* What a caller can do with the values it was handed.                     *)
(***************************************************************************)
\* books.clear() on the list list_books returned
CallerClear ==
    /\ alive /\ snap # 0
    /\ lists[snap] # <<>>
    /\ lists' = [lists EXCEPT ![snap] = <<>>]
    /\ result' = Res("caller_clear", "none", "", <<>>, 0, "", 0, <<>>)
    /\ UNCHANGED <<heap, snap, file, alive, peer>>

\* books.pop(i) on the list list_books returned
CallerPop(i) ==
    /\ alive /\ snap # 0
    /\ i \in 1..Len(lists[snap])
    /\ lists' = [lists EXCEPT ![snap] = RemoveAt(lists[snap], i)]
    /\ result' = Res("caller_pop", "none", "", <<>>, 0, "", 0, <<>>)
    /\ UNCHANGED <<heap, snap, file, alive, peer>>

\* books.append(book) on the list list_books returned, book one of its
\* elements
CallerAppend(i) ==
    /\ alive /\ snap # 0
    /\ i \in 1..Len(lists[snap])
    /\ Len(lists[snap]) < MaxHeld
    /\ lists' = [lists EXCEPT ![snap] = Append(lists[snap], lists[snap][i])]
    /\ result' = Res("caller_append", "none", "", <<>>, 0, "", 0, <<>>)
    /\ UNCHANGED <<heap, snap, file, alive, peer>>

\* book.title = ..., book.author = ... or book.isbn = ... on the Book the
\* last call returned, or on a Book of the list list_books returned
CallerSet(ref, field, text) ==
    /\ alive
    /\ \/ ref # 0 /\ ref = result.ref
       \/ snap # 0 /\ \E i \in 1..Len(lists[snap]) : lists[snap][i] = ref
    /\ heap[ref][field] # JStr(text)
    /\ heap' = [heap EXCEPT ![ref] = [@ EXCEPT ![field] = JStr(text)]]
    /\ result' = Res("caller_set", "none", "", <<>>, ref, "", 0, <<>>)
    /\ UNCHANGED <<lists, snap, file, alive, peer>>

Refs == 1..Len(heap)

(***************************************************************************)
(* A second process with its own Library on the same file.                 *)
(***************************************************************************)
\* Library(filename) in the second process
PeerOpen ==
    \E lib \in {Library(file)} :
    /\ ~peer.alive
    /\ peer' = [alive |-> lib.alive, heap |-> lib.heap, books |-> lib.lists[1],
                result |-> Res("load_books", lib.exc, "", <<>>, 0, "", 0, <<>>)]
    /\ UNCHANGED <<heap, lists, snap, file, alive, result>>

\* library.add_book(book) in the second process
PeerAddBook(title, author, isbn, ioOk) ==
    \E r \in {add_book(peer.books, peer.heap, file,
                        Book(JStr(title), JStr(author), JStr(isbn)), ioOk)} :
    /\ peer.alive
    /\ file' = r.file
    /\ peer' = [alive |-> TRUE, heap |-> r.heap, books |-> r.books,
                result |-> [Res("add_book", r.exc, r.msg, isbn,
                                IF r.exc = "ValueError" THEN 0 ELSE Len(r.heap),
                                "", 0, <<>>)
                            EXCEPT !.arg = IF r.exc = "ValueError" THEN isbn ELSE <<>>,
                                   !.saveFailed = r.exc = "IOError"]]
    /\ UNCHANGED <<heap, lists, snap, alive, result>>

(***************************************************************************)
(* Spec: the catalog store and its file.                                   *)
(***************************************************************************)
Next ==
    \/ Reopen
    \/ \E t \in Titles, a \in Authors, i \in Isbns, ioOk \in BOOLEAN :
          Len(heap) < MaxObjs /\ AddBook(t, a, i, ioOk)
    \/ \E i \in Isbns, ioOk \in BOOLEAN : RemoveBook(i, ioOk)
    \/ \E i \in Isbns : FindBook(i)
    \/ ListBooks

Spec == Init /\ [][Next]_vars

(***************************************************************************)
(* SpecCaller: a caller that changes the values the library handed out.    *)
(***************************************************************************)
InitCaller == Init /\ file \in {NoFile, F_one}

NextCaller ==
    \/ \E t \in Titles, a \in Authors, i \in Isbns :
          Len(heap) < MaxAliased /\ AddBook(t, a, i, TRUE)
    \/ \E i \in Isbns : FindBook(i)
    \/ ListBooks
    \/ CallerClear
    \/ \E i \in 1..MaxHeld : CallerPop(i)
    \/ \E i \in 1..MaxHeld : CallerAppend(i)
    \/ \E ref \in Refs, i \in Isbns : CallerSet(ref, "isbn", i)
    \/ \E ref \in Refs : CallerSet(ref, "title", NewText)
    \/ \E ref \in Refs : CallerSet(ref, "author", NewText)

SpecCaller == InitCaller /\ [][NextCaller]_vars

(***************************************************************************)
(* SpecLookup: books added through the remote service.                     *)
(***************************************************************************)
InitLookup == Init /\ file \in {NoFile, F_one}

NextLookup ==
    \/ \E i \in Isbns, remote \in Remotes, ioOk \in BOOLEAN :
          Len(heap) < MaxLookupObjs /\ AddBookByIsbn(i, remote, ioOk)
    \/ \E t \in Titles, a \in Authors, i \in Isbns :
          Len(heap) < MaxLookupObjs /\ AddBook(t, a, i, TRUE)

SpecLookup == InitLookup /\ [][NextLookup]_vars

(***************************************************************************)
(* SpecShared: two processes, each with a Library on the same file.        *)
(***************************************************************************)
InitShared == Init /\ file \in {NoFile, F_one}

NextShared ==
    \/ PeerOpen
    \/ \E t \in Titles, a \in Authors, i \in Isbns, ioOk \in BOOLEAN :
          Len(heap) < MaxSharedObjs /\ AddBook(t, a, i, ioOk)
    \/ \E t \in Titles, a \in Authors, i \in Isbns, ioOk \in BOOLEAN :
          Len(peer.heap) < MaxSharedObjs /\ PeerAddBook(t, a, i, ioOk)

SpecShared == InitShared /\ [][NextShared]_vars

(***************************************************************************)
(* What the catalog shows.                                                 *)
(***************************************************************************)
\* the Books behind a list of references
Values(bs, hp) == [i \in 1..Len(bs) |-> hp[bs[i]]]
\* the records of self.books, in order
Catalog == Values(books, heap)
\* the records list_books() returns
Listed(ls, hp) == LET r == list_books(ls) IN Values(r.lists[r.id], hp)
\* the text save_books writes for the records in memory
Persisted == save_books(books, heap, file, TRUE).file
\* the records a Library constructed on a file starts with
Loaded(fl) == LET lib == Library(fl) IN Values(lib.lists[1], lib.heap)

(***************************************************************************)
(* Claims                                                                  *)
(***************************************************************************)

\* C1: in every reachable state of a catalog no two records of the
\* in-memory sequence share the same isbn.
C1_UniqueIsbn ==
    alive => \A i, j \in 1..Len(books) :
                 i # j => heap[books[i]].isbn # heap[books[j]].isbn

\* C2: add(book) with an isbn already present fails with ValueError
\* 'already exists' and leaves the in-memory sequence and the backing file
\* as they were.
C2_DuplicateAddRejected ==
    [][\A t \in Titles, a \in Authors, i \in Isbns, ioOk \in BOOLEAN :
          (AddBook(t, a, i, ioOk) /\ find_book(books, heap, JStr(i)) # 0)
          => /\ result'.exc = "ValueError"
             /\ result'.msg = "already exists"
             /\ books' = books
             /\ Catalog' = Catalog
             /\ file' = file]_vars

\* a duplicate add was rejected on a catalog that holds a record and has a file
C2_Witness ==
    /\ result.op = "add_book" /\ result.exc = "ValueError"
    /\ Len(books) >= 1 /\ file.exists

\* C3: a catalog opened without a file is empty, and every add of a book
\* whose isbn is not present that returns makes list() return the records
\* it returned before followed by the new record: books with distinct
\* isbns added one by one to an empty catalog are listed each once, in the
\* order they were added.
C3_AddThenListInOrder ==
    [][/\ (Reopen /\ ~file.exists) => Listed(lists', heap') = <<>>
       /\ \A t \in Titles, a \in Authors, i \in Isbns, ioOk \in BOOLEAN :
            (AddBook(t, a, i, ioOk) /\ find_book(books, heap, JStr(i)) = 0
                /\ result'.exc = "none")
            => Listed(lists', heap')
                 = Append(Listed(lists, heap), Book(JStr(t), JStr(a), JStr(i)))]_vars

\* two books with distinct isbns were added to a catalog that started
\* without a file, and nothing else is in it
C3_Witness ==
    /\ result.op = "add_book" /\ result.exc = "none"
    /\ Len(heap) = 2 /\ books = <<1, 2>>
    /\ heap[1].isbn # heap[2].isbn
    /\ Listed(lists, heap) = <<heap[1], heap[2]>>

\* C4: unless persisting fails, remove(isbn) of a present isbn returns
\* success and a find(isbn) made directly afterwards returns absence;
\* remove(isbn) of an absent isbn returns failure without raising and
\* leaves the sequence unchanged.
C4_RemoveThenAbsent ==
    [][\A i \in Isbns, ioOk \in BOOLEAN :
          (RemoveBook(i, ioOk) /\ result'.exc = "none")
          => IF find_book(books, heap, JStr(i)) # 0
             THEN result'.ret = "True" /\ find_book(books', heap', JStr(i)) = 0
             ELSE result'.ret = "False" /\ Catalog' = Catalog /\ file' = file]_vars

\* C5: persisting the records of a catalog and constructing a new catalog
\* on the same file yields the same records in the same order.
C5_RoundTrip ==
    alive => /\ Library(Persisted).exc = "none"
             /\ Loaded(Persisted) = Catalog

\* a catalog was reopened on the file it wrote for two records whose title
\* needs escaping
C5_Witness ==
    /\ result.op = "load_books" /\ alive
    /\ Len(books) = 2 /\ heap[books[1]].isbn # heap[books[2]].isbn
    /\ \E t \in Titles : heap[books[1]].title = JStr(t) /\ "\"" \in {t[n] : n \in 1..Len(t)}
    /\ file = Persisted

\* the file holds an array of objects that each carry the three string fields
WellFormedFile(fl) ==
    LET parsed == json_load(fl.text) IN
    /\ parsed.ok
    /\ parsed.val.k = "arr"
    /\ \A n \in 1..Len(parsed.val.a) :
          LET e == parsed.val.a[n] IN
          /\ e.k = "obj"
          /\ \A key \in {K_title, K_author, K_isbn} :
                HasKey(e, key) /\ GetKey(e, key).k = "str"

\* C6: constructing a catalog on an existing file whose content is not a
\* sequence of objects with the three string fields never raises and
\* starts with an empty sequence.
C6_MalformedFileLoadsEmpty ==
    (result.op = "load_books" /\ file.exists /\ ~WellFormedFile(file))
    => (result.exc = "none" /\ alive /\ books = <<>>)

\* C7: right after every add or remove that returned successfully the
\* backing file holds exactly the records in memory, in order.
C7_PersistedAfterMutation ==
    (/\ result.op \in {"add_book", "remove_book"}
     /\ result.exc = "none"
     /\ result.op = "remove_book" => result.ret = "True")
    => /\ file = Persisted
       /\ file.exists
       /\ Loaded(file) = Catalog

\* a remove returned True and left a record behind, which is in the file
C7_Witness ==
    /\ result.op = "remove_book" /\ result.ret = "True"
    /\ Len(books) = 1
    /\ Len(Loaded(file)) = 1

\* C8: adding, removing or clearing elements of the sequence list()
\* returned changes no result of find or list on the catalog.
C8_ListIsCopy ==
    [][(CallerClear \/ (\E i \in 1..MaxHeld : CallerPop(i) \/ CallerAppend(i)))
       => /\ books' = books
          /\ Listed(lists', heap') = Listed(lists, heap)
          /\ \A i \in Isbns :
                find_book(books', heap', JStr(i)) = find_book(books, heap, JStr(i))]_vars

\* the caller emptied the list it got while the catalog holds two records
C8_Witness ==
    /\ result.op \in {"caller_clear", "caller_pop"}
    /\ snap # 0 /\ lists[snap] = <<>>
    /\ Len(Catalog) = 2

\* C9: overwriting the title, author or isbn of a record that find or
\* list returned changes nothing in the catalog.
C9_NoMutableReferences ==
    [][\A ref \in Refs, field \in {"title", "author", "isbn"},
          text \in {NewText} \cup Isbns :
          (CallerSet(ref, field, text) /\ result.op \in {"find_book", "list_books"})
          => /\ Catalog' = Catalog
             /\ (C1_UniqueIsbn => C1_UniqueIsbn')]_vars

\* C10: lookup-by-ISBN for an isbn already present fails with ValueError
\* 'already exists', issues no request to the remote service and leaves
\* the catalog and the file unchanged.
C10_DuplicateLookupNoRequest ==
    [][(/\ result'.op = "add_book_by_isbn"
        /\ find_book(books, heap, JStr(result'.isbn)) # 0)
          => /\ result'.exc = "ValueError"
             /\ result'.msg = "already exists"
             /\ result'.requests = <<>>
             /\ books' = books
             /\ Catalog' = Catalog
             /\ file' = file]_vars

\* a lookup of a present isbn was rejected
C10_Witness ==
    /\ result.op = "add_book_by_isbn" /\ result.msg = "already exists"
    /\ find_book(books, heap, JStr(result.isbn)) # 0
    /\ result.requests = <<>>

(***************************************************************************)
(* The remote lookup.                                                      *)
(***************************************************************************)
\* the last call was add_book_by_isbn and it issued the book request
Looked(r) == r.op = "add_book_by_isbn" /\ r.requests # <<>>
\* how the book request of the last lookup was answered
BookResp(r) == r.requests[1].resp

\* C11: when the book request of a lookup for an isbn not in the catalog is
\* answered with status 404, the lookup raises ValueError with the "not
\* found" message built from the requested isbn, POST /books answers 400,
\* and neither self.books nor the file changes.
C11_NotFound ==
    [][(/\ Looked(result')
        /\ BookResp(result').kind = "http"
        /\ BookResp(result').status = 404)
       => /\ result'.exc = "ValueError"
          /\ result'.msg = "not found"
          /\ result'.arg = result'.isbn
          /\ ApiStatus(result'.exc) = 400
          /\ Catalog' = Catalog
          /\ books' = books
          /\ file' = file]_vars

C11_Witness ==
    /\ Looked(result)
    /\ BookResp(result).kind = "http"
    /\ BookResp(result).status = 404
    /\ result.exc = "ValueError"
    /\ books # <<>>

\* the book request ended in a timeout, a connection failure or an
\* unsuccessful status other than 404
BookUnavailable(r) ==
    /\ Looked(r)
    /\ \/ BookResp(r).kind \in {"timeout", "connect"}
       \/ /\ BookResp(r).kind = "http"
          /\ BookResp(r).status \notin 200..299
          /\ BookResp(r).status # 404

\* C12: when the book request ends in a timeout, a connection failure or an
\* unsuccessful status other than 404, the lookup raises ConnectionError (for
\* a status, the message is built from that status code), POST /books
\* answers 503, and neither self.books nor the file changes.
C12_RemoteUnavailable ==
    [][BookUnavailable(result')
       => /\ result'.exc = "ConnectionError"
          /\ BookResp(result').kind = "timeout" => result'.msg = "Request timed out"
          /\ BookResp(result').kind = "connect" => result'.msg = "Failed to connect"
          /\ BookResp(result').kind = "http"
                => /\ result'.msg = "HTTP error occurred"
                   /\ result'.code = BookResp(result').status
          /\ ApiStatus(result'.exc) = 503
          /\ Catalog' = Catalog
          /\ books' = books
          /\ file' = file]_vars

C12_Witness ==
    /\ BookUnavailable(result)
    /\ BookResp(result).kind = "http"
    /\ result.code = 500
    /\ result.exc = "ConnectionError"
    /\ books # <<>>
\* the book request was answered with a success status
BookSucceeded(r) ==
    /\ Looked(r)
    /\ BookResp(r).kind = "http"
    /\ BookResp(r).status \in 200..299
\* a body that is not JSON, or JSON that is not an object
Malformed(body) ==
    LET parsed == json_load(body) IN ~parsed.ok \/ parsed.val.k # "obj"

\* C13: whenever the book request is answered with a success status and a
\* body that is not JSON or is JSON but not an object, the lookup raises
\* ValueError with the invalid-response-format message, never ConnectionError.
C13_MalformedIsValueError ==
    (BookSucceeded(result) /\ Malformed(BookResp(result).body))
    => /\ result.exc = "ValueError"
       /\ result.msg = "Invalid response format"

\* the n-th request of the lookup was an author request that failed: a
\* timeout, a connection failure or a status other than 200
FollowUpFailed(r, n) ==
    /\ n \in 2..Len(r.requests)
    /\ \/ r.requests[n].resp.kind \in {"timeout", "connect"}
       \/ r.requests[n].resp.kind = "http" /\ r.requests[n].resp.status # 200
\* the n-th request of the lookup was an author request answered 200 with
\* a JSON object
FollowUpSucceeded(r, n) ==
    /\ n \in 2..Len(r.requests)
    /\ r.requests[n].resp.kind = "http"
    /\ r.requests[n].resp.status = 200
    /\ ~Malformed(r.requests[n].resp.body)

\* C14: after a successful book request, when author requests fail (status
\* other than 200, timeout, connection failure) and every other author
\* request is answered well and the file can be written, the lookup still
\* succeeds: every keyed author reference was requested, and a Book is added
\* to self.books and returned.
C14_FollowUpFailureSkipped ==
    (/\ BookSucceeded(result)
     /\ ~Malformed(BookResp(result).body)
     /\ ~result.saveFailed
     /\ \E n \in 2..Len(result.requests) : FollowUpFailed(result, n)
     /\ \A n \in 2..Len(result.requests) :
           FollowUpFailed(result, n) \/ FollowUpSucceeded(result, n))
    => /\ result.exc = "none"
       /\ result.ret = "Book"
       /\ Len(result.requests) = 1 + RefCount(BookResp(result))
       /\ find_book(books, heap, JStr(result.isbn)) = result.ref
       /\ result.ref # 0
\* the lookup ended with a Book added and returned
LookupSucceeded(r) == r.op = "add_book_by_isbn" /\ r.exc = "none"
\* the keys of the author references of a book body that carry one, in the
\* order of the body
KeyedRefs(body) ==
    LET book_data == json_load(body).val
        refs == IF HasKey(book_data, K_authors)
                THEN Iter(GetKey(book_data, K_authors)) ELSE <<>>
        keyed == SelectSeq(refs, LAMBDA ref : ref.k = "obj" /\ HasKey(ref, K_key)) IN
    [n \in 1..Len(keyed) |-> GetKey(keyed[n], K_key)]
\* the display names of the author requests answered 200, in the order of
\* the requests, 'Unknown Author' for an answer without a name
CollectedNames(r) ==
    LET answered == SelectSeq(Tail(r.requests),
                              LAMBDA q : q.resp.kind = "http" /\ q.resp.status = 200) IN
    [n \in 1..Len(answered) |->
        LET author_data == json_load(answered[n].resp.body).val IN
        IF HasKey(author_data, K_name) THEN GetKey(author_data, K_name)
        ELSE JStr(UnknownAuthor)]
\* the Book of a successful lookup: requested isbn, title of the book body
\* or 'Unknown Title', the collected names joined with ", " in the order of
\* the references, 'Unknown Author' when none was collected
LookupRecord(r) ==
    LET book_data == json_load(BookResp(r).body).val
        names == CollectedNames(r) IN
    Book(IF HasKey(book_data, K_title) THEN GetKey(book_data, K_title)
         ELSE JStr(UnknownTitle),
         JStr(IF names = <<>> THEN UnknownAuthor ELSE Join(names)),
         JStr(r.isbn))

\* C15 (as stated): for every successful lookup the author requests follow
\* the keyed references of the book body in order, the added Book has the
\* requested isbn, the body's title or 'Unknown Title', and the collected
\* names joined with ", "; and its author is 'Unknown Author' exactly when
\* no name was collected.
C15_AuthorExactly ==
    LookupSucceeded(result)
    => /\ [n \in 1..(Len(result.requests) - 1) |-> result.requests[n + 1].arg]
             = KeyedRefs(BookResp(result).body)
       /\ heap[result.ref] = LookupRecord(result)
       /\ books[Len(books)] = result.ref
       /\ heap[result.ref].author = JStr(UnknownAuthor)
             <=> CollectedNames(result) = <<>>

\* C15 (amended): the same, but 'Unknown Author' is the author whenever no
\* name was collected, and also when the only author request that succeeded
\* carried no name.
C15_LookupRecord ==
    LookupSucceeded(result)
    => /\ [n \in 1..(Len(result.requests) - 1) |-> result.requests[n + 1].arg]
             = KeyedRefs(BookResp(result).body)
       /\ heap[result.ref] = LookupRecord(result)
       /\ books[Len(books)] = result.ref
       /\ CollectedNames(result) = <<>>
             => heap[result.ref].author = JStr(UnknownAuthor)

\* two authors requested, the first with a name and the second without
C15_Witness ==
    /\ LookupSucceeded(result)
    /\ Len(result.requests) = 3
    /\ Len(CollectedNames(result)) = 2
    /\ CollectedNames(result)[1] # CollectedNames(result)[2]
    /\ heap[result.ref].author = JStr(Join(CollectedNames(result)))
\* C16: whenever save_books could not write the file during a call, the
\* call raises the IOError of save_books, and when the call is a lookup
\* POST /books answers 500.
C16_PersistenceFailureSurfaced ==
    result.saveFailed
    => /\ result.exc = "IOError"
       /\ result.op = "add_book_by_isbn" => ApiStatus(result.exc) = 500

\* the requests of a lookup that reached the remote service: the book
\* request for the isbn first and once, author requests after it, and those
\* only after a success status of the book request
RequestsInSequence(r) ==
    /\ r.requests[1].to = "isbn"
    /\ r.requests[1].arg = JStr(r.isbn)
    /\ \A n \in 2..Len(r.requests) : r.requests[n].to = "author"
    /\ Len(r.requests) > 1 => BookSucceeded(r)

\* C17 (as stated): every lookup that reaches the remote service issues at
\* most two requests: the book request once and first, then at most one
\* author request, and that only after a success status of the book request.
C17_AtMostTwoRequests ==
    Looked(result)
    => /\ RequestsInSequence(result)
       /\ Len(result.requests) <= 2

\* C17 (amended): every lookup that reaches the remote service issues the
\* book request once and first, then at most one author request for each
\* author reference of the book body that carries a key, in the order of the
\* references, and those only after a success status of the book request.
C17_OneRequestPerAuthor ==
    Looked(result)
    => /\ RequestsInSequence(result)
       /\ Len(result.requests) <= 1 + RefCount(BookResp(result))
       /\ \A n \in 2..Len(result.requests) :
             result.requests[n].arg = KeyedRefs(BookResp(result).body)[n - 1]

\* a book with two keyed author references: three requests
C17_Witness ==
    /\ Looked(result)
    /\ Len(result.requests) = 3
    /\ result.requests[2].arg # result.requests[3].arg

\* C18: a step of add_book or remove_book that raises because save_books
\* could not write the file leaves self.books as it was before the call.
C18_FailedSaveLeavesMemory ==
    [][(/\ result'.op \in {"add_book", "remove_book"}
        /\ result'.saveFailed)
       => /\ books' = books
          /\ Catalog' = Catalog]_vars
(***************************************************************************)
(* Two instances on one file.                                              *)
(***************************************************************************)
\* the file holding exactly the records of one instance's memory
DumpOf(bs, hp) == File(json_dump(JArr([i \in 1..Len(bs) |-> to_dict(hp[bs[i]])])))
\* a file holds a record with this isbn
InFile(fl, isbn) ==
    \E n \in 1..Len(Loaded(fl)) : Loaded(fl)[n].isbn = JStr(isbn)

\* C19: with two instances on one file, every successful add_book of either
\* instance leaves the file holding exactly that instance's self.books,
\* whatever the other instance wrote before: nothing is merged, and the
\* state where the earlier writer's record is gone from the file while both
\* calls returned without an error is reachable.
C19_LaterWriterWins ==
    [][/\ (heap' # heap /\ result'.op = "add_book" /\ result'.exc = "none")
            => file' = DumpOf(books', heap')
       /\ (peer'.heap # peer.heap /\ peer'.result.op = "add_book"
            /\ peer'.result.exc = "none")
            => file' = DumpOf(peer'.books, peer'.heap)]_vars

\* the first instance added x, the second then added y, both without an
\* error; the file is the second instance's memory and x is not in it
C19_Witness ==
    /\ result.op = "add_book" /\ result.exc = "none"
    /\ peer.result.op = "add_book" /\ peer.result.exc = "none"
    /\ result.isbn # peer.result.isbn
    /\ find_book(books, heap, JStr(result.isbn)) # 0
    /\ find_book(peer.books, peer.heap, JStr(result.isbn)) = 0
    /\ file = DumpOf(peer.books, peer.heap)
    /\ InFile(file, peer.result.isbn)
    /\ ~InFile(file, result.isbn)
====
